---- MODULE Spec2Model ----
(***************************************************************************)
(* Model of the Cloudflare ruleset reconciliation of cf_apply.py:          *)
(* fetch_formatted_rules_for_zone (the Reader), synchronize_rules (the     *)
(* classifier, the diff, the payload builder and the Writer call) and the  *)
(* per-zone body of run_apply_mode (the driver).                           *)
(*                                                                         *)
(* A label is a sequence of one-character strings, so that the regular     *)
(* expression of the classifier and the f-string of the label generator    *)
(* are computed character by character.                                    *)
(***************************************************************************)
EXTENDS Integers, Sequences, FiniteSets, TLC

\* ------------------------------------------------------------------ bounds
MaxRemote == 2      \* longest ruleset a zone holds in the initial state
MaxDesired == 2     \* most rule expressions loaded from the rules file
MaxCeiling == 3     \* largest max_rules of the configuration
MaxPasses == 2      \* number of consecutive runs of the driver on the zone
MaxPart == 120      \* largest part number whose label is generated and parsed
MaxTail == 3        \* most characters that follow the prefix in a fetched label
MaxAsns == 3        \* most ASN rows of the CSV file given to create_cloudflare_rules
MaxLength == 30     \* largest max_length given to create_cloudflare_rules
MaxZones == 2       \* number of managed zones one invocation walks through

\* --------------------------------------------------------------- constants
MANAGED_RULE_PREFIX ==
  <<"B","l","o","c","k","-","B","a","d","-","A","S","N","s","-","P","a","r","t","-">>

None == -1          \* Python None where an integer or a handle is expected
NoId == 0           \* a rule dict without the key 'id'
NoParams == ""      \* a rule dict without the key 'action_parameters'

\* ------------------------------------------------------ characters, digits
DigitChars == <<"0","1","2","3","4","5","6","7","8","9">>

IsDigit(c) == \E i \in 1..10 : DigitChars[i] = c

DigitVal(c) == (CHOOSE i \in 1..10 : DigitChars[i] = c) - 1

\* int(match.group(1)): the value of a run of decimal digits
RECURSIVE DigitsValue(_)
DigitsValue(ds) ==
  IF ds = <<>> THEN 0
  ELSE DigitsValue(SubSeq(ds, 1, Len(ds) - 1)) * 10 + DigitVal(ds[Len(ds)])

\* f"{part}": the decimal digits of a non-negative integer
RECURSIVE Decimal(_)
Decimal(n) ==
  IF n < 10 THEN <<DigitChars[n + 1]>>
  ELSE Decimal(n \div 10) \o <<DigitChars[(n % 10) + 1]>>

\* f"{MANAGED_RULE_PREFIX}{part}"
ManagedLabel(part) == MANAGED_RULE_PREFIX \o Decimal(part)

\* mutant: the group matches one digit only (\d for \d+)
DigitRun_OneDigit(l, i) == IF i <= Len(l) /\ IsDigit(l[i]) THEN 1 ELSE 0

\* (\d+) is greedy: the length of the longest digit run of l that starts at i
RECURSIVE DigitRun(_, _)
DigitRun(l, i) ==
  IF i <= Len(l) /\ IsDigit(l[i]) THEN 1 + DigitRun(l, i + 1) ELSE 0

\* mutant: the pattern is searched for anywhere in the label (re.search)
ParsePart_Search(l) ==
  LET n == Len(MANAGED_RULE_PREFIX)
      offs == {s \in 0..(Len(l) - n - 1) :
                 SubSeq(l, s + 1, s + n) = MANAGED_RULE_PREFIX /\ DigitRun(l, s + n + 1) > 0}
  IN IF offs = {} THEN None
     ELSE LET s == CHOOSE x \in offs : \A y \in offs : x <= y
          IN DigitsValue(SubSeq(l, s + n + 1, s + n + DigitRun(l, s + n + 1)))

\* re.match(rf"{MANAGED_RULE_PREFIX}(\d+)", description) and int(group(1)):
\* the part number of a managed label, None when the pattern does not match
\* at the start of the label
ParsePart(l) ==
  LET n == Len(MANAGED_RULE_PREFIX) IN
  IF Len(l) > n /\ SubSeq(l, 1, n) = MANAGED_RULE_PREFIX /\ DigitRun(l, n + 1) > 0
  THEN DigitsValue(SubSeq(l, n + 1, n + DigitRun(l, n + 1)))
  ELSE None

\* ----------------------------------------------------------------- helpers
Max(a, b) == IF a >= b THEN a ELSE b

\* sorted(list(S)) for a finite set of integers
RECURSIVE SortedSeq(_)
SortedSeq(S) ==
  IF S = {} THEN <<>>
  ELSE LET m == CHOOSE x \in S : \A y \in S : x <= y
       IN <<m>> \o SortedSeq(S \ {m})

\* ------------------------------------------------ synchronize_rules, part 1
\* new_expressions_map = {i + 1: expr for i, expr in enumerate(new_expressions)}
NewExpressionsMap(new_expressions) ==
  [i \in 1..Len(new_expressions) |-> new_expressions[i]]

\* mutant: the first rule with a part number is the one the map keeps
ManagedRulesOnCf_FirstWins(existing_rules, n) ==
  LET parts == {ParsePart(existing_rules[i].description) : i \in 1..n} \ {None}
  IN [q \in parts |->
        existing_rules[CHOOSE i \in 1..n :
                          /\ ParsePart(existing_rules[i].description) = q
                          /\ \A j \in 1..(i - 1) :
                                ParsePart(existing_rules[j].description) # q]]

\* the loop that fills managed_rules_on_cf over existing_rules[1..n]:
\* a later rule with the same part number overwrites the earlier one
RECURSIVE ManagedRulesOnCf(_, _)
ManagedRulesOnCf(existing_rules, n) ==
  IF n = 0 THEN [q \in {} |-> existing_rules]
  ELSE LET m == ManagedRulesOnCf(existing_rules, n - 1)
           part_number == ParsePart(existing_rules[n].description)
       IN IF part_number # None
          THEN [q \in (DOMAIN m) \cup {part_number} |->
                  IF q = part_number THEN existing_rules[n] ELSE m[q]]
          ELSE m

\* mutant: a disabled managed rule is queued for update as well
PartsToUpdate_ComparesEnabled(existing_rules, new_expressions) ==
  LET managed == ManagedRulesOnCf(existing_rules, Len(existing_rules))
      desired == NewExpressionsMap(new_expressions)
  IN [part \in {p \in (DOMAIN managed) \cap (DOMAIN desired) :
                   managed[p].expression # desired[p] \/ ~managed[p].enabled}
        |-> desired[part]]

\* parts_to_update, parts_to_create, parts_to_delete before the mode filter
PartsToUpdate(existing_rules, new_expressions) ==
  LET managed == ManagedRulesOnCf(existing_rules, Len(existing_rules))
      desired == NewExpressionsMap(new_expressions)
  IN [part \in {p \in (DOMAIN managed) \cap (DOMAIN desired) :
                   managed[p].expression # desired[p]} |-> desired[part]]

PartsToCreate(existing_rules, new_expressions) ==
  (DOMAIN NewExpressionsMap(new_expressions))
     \ (DOMAIN ManagedRulesOnCf(existing_rules, Len(existing_rules)))

\* mutant: the set difference of line 141 is taken the wrong way round
PartsToDelete_Swapped(existing_rules, new_expressions) ==
  (DOMAIN NewExpressionsMap(new_expressions))
     \ (DOMAIN ManagedRulesOnCf(existing_rules, Len(existing_rules)))

\* mutant: only the part numbers beyond the desired ones are deleted
PartsToDelete_BeyondOnly(existing_rules, new_expressions) ==
  {p \in DOMAIN ManagedRulesOnCf(existing_rules, Len(existing_rules)) :
      p > Len(new_expressions)}

PartsToDelete(existing_rules, new_expressions) ==
  (DOMAIN ManagedRulesOnCf(existing_rules, Len(existing_rules)))
     \ (DOMAIN NewExpressionsMap(new_expressions))

\* ------------------------------------------------ synchronize_rules, part 2
\* lines 143-149: in update-only mode creations and deletions are cleared
FilteredCreate(update_only, parts_to_create) ==
  IF update_only THEN {} ELSE parts_to_create

\* mutant: update-only mode forgets to clear the deletions
FilteredDelete_NotCleared(update_only, parts_to_delete) == parts_to_delete

FilteredDelete(update_only, parts_to_delete) ==
  IF update_only THEN {} ELSE parts_to_delete

\* mutant: the general no-change test of line 161 is missing
NothingToSynchronize_NoGeneralTest(update_only, parts_to_update, parts_to_create, parts_to_delete) ==
  update_only /\ DOMAIN parts_to_update = {}

\* lines 144 and 161: the two early returns (return False, no Writer call)
NothingToSynchronize(update_only, parts_to_update, parts_to_create, parts_to_delete) ==
  \/ update_only /\ DOMAIN parts_to_update = {}
  \/ parts_to_create = {} /\ parts_to_delete = {} /\ DOMAIN parts_to_update = {}

\* mutant: the copy of an unmanaged rule loses its identifier
KeepUnmanaged_DropsId(rule) == [rule EXCEPT !.id = NoId]

\* line 190: an unmanaged rule is appended as a copy of itself
KeepUnmanaged(rule) == rule

\* mutant: the expression of a rule queued for update is not replaced
KeepManaged_NoRewrite(rule, part_num, parts_to_update) == rule

\* mutant: an updated rule is rebuilt like a new one, keeping only its identifier
KeepManaged_Rebuilds(rule, part_num, parts_to_update) ==
  IF part_num \in DOMAIN parts_to_update
  THEN [id |-> rule.id, description |-> rule.description,
        expression |-> parts_to_update[part_num], action |-> "block",
        enabled |-> TRUE, action_parameters |-> NoParams]
  ELSE rule

\* lines 181-185: a retained managed rule, its expression rewritten when its
\* part number is queued for update
KeepManaged(rule, part_num, parts_to_update) ==
  IF part_num \in DOMAIN parts_to_update
  THEN [rule EXCEPT !.expression = parts_to_update[part_num]]
  ELSE rule

\* lines 172-194: the first pass over existing_rules[1..n]; the result holds
\* final_rules_payload, last_skip_index and last_managed_rule_index (0-based,
\* -1 when there is none)
RECURSIVE FirstPass(_, _, _, _)
FirstPass(existing_rules, n, parts_to_update, parts_to_delete) ==
  IF n = 0
  THEN [payload |-> <<>>, last_skip_index |-> -1, last_managed_rule_index |-> -1]
  ELSE LET prev == FirstPass(existing_rules, n - 1, parts_to_update, parts_to_delete)
           rule == existing_rules[n]
           part_num == ParsePart(rule.description)
       IN IF part_num # None /\ part_num \in parts_to_delete
          THEN prev       \* continue: nothing appended, no index tracked
          ELSE LET appended == IF part_num # None
                               THEN KeepManaged(rule, part_num, parts_to_update)
                               ELSE KeepUnmanaged(rule)
                   payload == Append(prev.payload, appended)
               IN [payload |-> payload,
                   last_managed_rule_index |->
                      IF part_num # None THEN Len(payload) - 1
                      ELSE prev.last_managed_rule_index,
                   last_skip_index |->
                      IF appended.action = "skip" THEN Len(payload) - 1
                      ELSE prev.last_skip_index]

\* mutant: only the last 'skip' rule decides where new rules go
InsertionBaseIndex_SkipOnly(last_skip_index, last_managed_rule_index) ==
  last_skip_index

\* mutant: only the last managed rule decides where new rules go
InsertionBaseIndex_ManagedOnly(last_skip_index, last_managed_rule_index) ==
  last_managed_rule_index

\* line 198
InsertionBaseIndex(last_skip_index, last_managed_rule_index) ==
  Max(last_skip_index, last_managed_rule_index)

\* mutant: the ceiling test is off by one
CeilingReached_OffByOne(payload_len, queued, max_rules) ==
  payload_len + queued > max_rules

\* mutant: the ceiling test forgets the rules already queued for creation
CeilingReached_IgnoresQueued(payload_len, queued, max_rules) ==
  payload_len >= max_rules

\* line 204: the ceiling test made before each creation
CeilingReached(payload_len, queued, max_rules) ==
  payload_len + queued >= max_rules

\* mutant: a newly created rule is switched off
NewRule_Disabled(part, expression) ==
  [id |-> NoId, description |-> ManagedLabel(part), expression |-> expression,
   action |-> "block", enabled |-> FALSE, action_parameters |-> NoParams]

\* lines 207-212: a newly created rule
NewRule(part, expression) ==
  [id |-> NoId, description |-> ManagedLabel(part), expression |-> expression,
   action |-> "block", enabled |-> TRUE, action_parameters |-> NoParams]

\* lines 203-212: the loop over sorted(parts_to_create)[1..n]; the result holds
\* newly_created_rules and the part numbers skipped with a warning
RECURSIVE SecondPass(_, _, _, _, _)
SecondPass(parts, n, payload_len, new_expressions, max_rules) ==
  IF n = 0 THEN [newly_created_rules |-> <<>>, skipped |-> <<>>]
  ELSE LET prev == SecondPass(parts, n - 1, payload_len, new_expressions, max_rules)
       IN IF CeilingReached(payload_len, Len(prev.newly_created_rules), max_rules)
          THEN [prev EXCEPT !.skipped = Append(@, parts[n])]
          ELSE [prev EXCEPT !.newly_created_rules =
                   Append(@, NewRule(parts[n], NewExpressionsMap(new_expressions)[parts[n]]))]

\* mutant: the new rules are appended at the end of the payload
SliceInsert_Appends(payload, insertion_point, new_rules) == payload \o new_rules

\* line 219: final_rules_payload[insertion_point:insertion_point] = new_rules
SliceInsert(payload, insertion_point, new_rules) ==
  SubSeq(payload, 1, insertion_point) \o new_rules
     \o SubSeq(payload, insertion_point + 1, Len(payload))

\* lines 122-223: everything synchronize_rules computes before the Writer call.
\* call_writer is FALSE on the early returns; payload is what is submitted;
\* parts_to_update, parts_to_create and parts_to_delete are the sets of lines
\* 135-141, before update-only mode clears the last two.
SynchronizePlan(existing_rules, new_expressions, max_rules, update_only) ==
  LET parts_to_update == PartsToUpdate(existing_rules, new_expressions)
      parts_to_create ==
         FilteredCreate(update_only, PartsToCreate(existing_rules, new_expressions))
      parts_to_delete ==
         FilteredDelete(update_only, PartsToDelete(existing_rules, new_expressions))
      first == FirstPass(existing_rules, Len(existing_rules),
                         parts_to_update, parts_to_delete)
      sorted_create == SortedSeq(parts_to_create)
      second == SecondPass(sorted_create, Len(sorted_create), Len(first.payload),
                           new_expressions, max_rules)
      insertion_point ==
         InsertionBaseIndex(first.last_skip_index, first.last_managed_rule_index) + 1
  IN [call_writer |-> ~NothingToSynchronize(update_only, parts_to_update,
                                            parts_to_create, parts_to_delete),
      parts_to_update |-> DOMAIN parts_to_update,
      parts_to_create |-> PartsToCreate(existing_rules, new_expressions),
      parts_to_delete |-> PartsToDelete(existing_rules, new_expressions),
      skipped |-> second.skipped,
      payload |-> IF parts_to_create # {}
                  THEN SliceInsert(first.payload, insertion_point,
                                   second.newly_created_rules)
                  ELSE first.payload]

\* ------------------------------------------------------------ remote rules
\* Rules as fetch_formatted_rules_for_zone formats them (lines 78-86), without
\* the identifier: an unmanaged rule whose label holds the prefix but not at
\* its start, an unmanaged 'skip' rule with action parameters and no label,
\* and managed rules for the parts 1 and 3 (one of them disabled, with action
\* 'skip' and action parameters).
Rule(description, expression, action, enabled, action_parameters) ==
  [id |-> NoId, description |-> description, expression |-> expression,
   action |-> action, enabled |-> enabled, action_parameters |-> action_parameters]

RulePool ==
  { Rule(<<"x">> \o ManagedLabel(1), "a", "block", TRUE, NoParams),
    Rule(<<>>, "g", "skip", TRUE, "ruleset:current"),
    Rule(ManagedLabel(1), "a", "block", TRUE, NoParams),
    Rule(ManagedLabel(1), "b", "skip", FALSE, "ruleset:current"),
    Rule(ManagedLabel(3), "a", "block", TRUE, NoParams) }

\* the expressions of the rules file (load_rule_expressions keeps non-empty,
\* stripped lines)
Expressions == {"a", "b"}

SeqsUpTo(S, n) == UNION {[1..k -> S] : k \in 0..n}

\* the remote system gives every stored rule an identifier: a rule submitted
\* without one gets the next unused identifier
RECURSIVE MaxId(_)
MaxId(rs) ==
  IF rs = <<>> THEN 0 ELSE Max(rs[Len(rs)].id, MaxId(SubSeq(rs, 1, Len(rs) - 1)))

RECURSIVE AssignIds(_, _)
AssignIds(rs, next) ==
  IF rs = <<>> THEN <<>>
  ELSE IF rs[1].id = NoId
       THEN <<[rs[1] EXCEPT !.id = next]>> \o AssignIds(Tail(rs), next + 1)
       ELSE <<rs[1]>> \o AssignIds(Tail(rs), next)

Stored(rs) == AssignIds(rs, MaxId(rs) + 1)

\* ------------------------------------------------------------------- state
VARIABLES
  remote,                \* the zone's ruleset on Cloudflare: [exists, rules]
  new_rule_expressions,  \* run_apply_mode: the loaded rule expressions
  max_rules,             \* run_apply_mode: the zone's ceiling
  update_only,           \* run_apply_mode: the mode flag
  pc,                    \* position of the driver in the zone's pass
  rules,                 \* run_apply_mode: the local variable rules
  ruleset_id,            \* run_apply_mode: the local variable ruleset_id
  reader,                \* what the Reader met at the first fetch of the pass
  fetched,               \* the rules returned by the first fetch of the pass
  sync,                  \* the call of synchronize_rules made in the pass
  writes,                \* the Writer calls of the pass, in order
  updates_were_made,     \* run_apply_mode: result of synchronize_rules
  refetches,             \* number of re-fetches made in the pass
  pass,                  \* which consecutive run of the driver this is
  prev,                  \* summary of the previous pass
  probe,                 \* one label on its way from line 208 to line 126
  zones,                 \* run_apply_mode: the zones still to come and those done
  build,                 \* run_apply_mode: the rules file, its load and the build step
  pack                   \* create_cloudflare_rules: its locals

vars == <<remote, new_rule_expressions, max_rules, update_only, pc, rules,
          ruleset_id, reader, fetched, sync, writes, updates_were_made,
          refetches, pass, prev, probe, zones, build, pack>>

\* what the per-zone body of the driver never touches
aside == <<probe, zones, build, pack>>

config == <<new_rule_expressions, max_rules, update_only>>

RulesetHandle == 1     \* ruleset.id, an opaque truthy handle

\* sync before synchronize_rules is called: the three sets are those of lines
\* 135-141, skipped holds the part numbers of the capacity warnings, ret the
\* value returned
NoSync ==
  [called |-> FALSE, call_writer |-> FALSE, parts_to_update |-> {},
   parts_to_create |-> {}, parts_to_delete |-> {}, skipped |-> <<>>, ret |-> FALSE]

\* prev before any run has ended: synced tells whether the previous run called
\* synchronize_rules, failed whether one of its writes failed
NoPrev == [synced |-> FALSE, failed |-> FALSE]

\* probe while no label is followed
NoProbe == [stage |-> "off", n |-> 0, label |-> <<>>, parsed |-> None]

\* zones while a single zone is followed
NoZones == [waiting |-> <<>>, log |-> <<>>]

\* build while the start of run_apply_mode is not followed
NoBuild ==
  [stage |-> "off", file |-> [exists |-> FALSE, lines |-> <<>>], generated |-> <<>>,
   loaded |-> <<>>, used |-> <<>>]

\* pack while create_cloudflare_rules is not followed
NoPack ==
  [stage |-> "off", asns |-> <<>>, max_length |-> 0, unique_asns |-> <<>>, i |-> 0,
   current_asns_for_rule |-> <<>>, all_rules |-> <<>>]

Init ==
  /\ probe = NoProbe
  /\ zones = NoZones
  /\ build = NoBuild
  /\ pack = NoPack
  /\ remote \in {[exists |-> FALSE, rules |-> <<>>]}
        \cup {[exists |-> TRUE, rules |-> Stored(rs)] : rs \in SeqsUpTo(RulePool, MaxRemote)}
  /\ new_rule_expressions \in SeqsUpTo(Expressions, MaxDesired)
  /\ max_rules \in 1..MaxCeiling
  /\ update_only \in BOOLEAN
  /\ pc = "Idle"
  /\ rules = <<>>
  /\ ruleset_id = None
  /\ reader = "none"
  /\ fetched = <<>>
  /\ sync = NoSync
  /\ writes = <<>>
  /\ updates_were_made = FALSE
  /\ refetches = 0
  /\ pass = 1
  /\ prev = NoPrev

\* fetch_formatted_rules_for_zone, lines 64-95: the rules and the handle on
\* success; ([], None) on any APIError, 'not found' or not
FetchResult(outcome) ==
  IF outcome = "ok" THEN [rules |-> remote.rules, ruleset_id |-> RulesetHandle]
  ELSE [rules |-> <<>>, ruleset_id |-> None]

\* what the Reader can meet: a transport error at any time, otherwise the
\* ruleset or its absence
ReaderOutcomes == {"error"} \cup (IF remote.exists THEN {"ok"} ELSE {"notfound"})

\* line 367: the first fetch of the zone's pass
Fetch ==
  /\ pc = "Idle"
  /\ \E outcome \in ReaderOutcomes :
        /\ reader' = outcome
        /\ rules' = FetchResult(outcome).rules
        /\ ruleset_id' = FetchResult(outcome).ruleset_id
        /\ fetched' = FetchResult(outcome).rules
  /\ pc' = "Fetched"
  /\ UNCHANGED <<aside, remote, config, sync, writes, updates_were_made, refetches, pass, prev>>

\* mutant: a failed write sends the driver back to the reconciliation
AfterWrite_Retries(write_ok) == IF write_ok THEN "Refetch" ELSE "Fetched"

\* mutant: the re-fetch after a successful write is left out
AfterWrite_NoRefetch(write_ok) == "Done"

\* lines 374-377, 397-402: after a successful write the driver re-fetches the
\* ruleset; after a failed one (lines 228-230, 401-402) the zone's pass ends
AfterWrite(write_ok) == IF write_ok THEN "Refetch" ELSE "Done"

\* lines 369-375: synchronize_rules on the fetched rules; the Writer call
\* (line 225) either succeeds, replacing the whole remote list, or raises
Synchronize ==
  /\ pc = "Fetched"
  /\ ruleset_id # None
  /\ LET plan == SynchronizePlan(rules, new_rule_expressions, max_rules, update_only)
     IN \E write_ok \in BOOLEAN :
          /\ plan.call_writer \/ ~write_ok
          /\ sync' = [called |-> TRUE, call_writer |-> plan.call_writer,
                      parts_to_update |-> plan.parts_to_update,
                      parts_to_create |-> plan.parts_to_create,
                      parts_to_delete |-> plan.parts_to_delete,
                      skipped |-> plan.skipped,
                      ret |-> plan.call_writer /\ write_ok]
          /\ writes' = IF plan.call_writer
                       THEN Append(writes, [kind |-> "update", rules |-> plan.payload,
                                            ok |-> write_ok])
                       ELSE writes
          /\ remote' = IF plan.call_writer /\ write_ok
                       THEN [exists |-> TRUE, rules |-> Stored(plan.payload)]
                       ELSE remote
          /\ updates_were_made' = (plan.call_writer /\ write_ok)
          /\ pc' = IF plan.call_writer THEN AfterWrite(write_ok) ELSE "Done"
  /\ UNCHANGED <<aside, config, rules, ruleset_id, reader, fetched, refetches, pass, prev>>

\* mutant: the parts of a newly created ruleset are numbered from 0
InitialRules_ZeroBased(new_expressions, n) ==
  [k \in 1..n |-> NewRule(k - 1, new_expressions[k])]

\* lines 382-390: the rules of a newly created ruleset
RECURSIVE InitialRules(_, _)
InitialRules(new_expressions, n) ==
  IF n = 0 THEN <<>>
  ELSE Append(InitialRules(new_expressions, n - 1), NewRule(n, new_expressions[n]))

\* mutant: without a handle the ruleset is created in either mode
NoRulesetBranch_AlwaysCreates(mode_update_only) == "create"

\* lines 379 and 403: what the driver does for a zone without a handle
NoRulesetBranch(mode_update_only) == IF mode_update_only THEN "skip" ELSE "create"

\* lines 379-402: no handle and full-sync mode: create the ruleset
CreateRuleset ==
  /\ pc = "Fetched"
  /\ ruleset_id = None
  /\ NoRulesetBranch(update_only) = "create"
  /\ LET initial_rules == InitialRules(new_rule_expressions, Len(new_rule_expressions))
     IN \E write_ok \in BOOLEAN :
          /\ writes' = Append(writes, [kind |-> "create", rules |-> initial_rules,
                                       ok |-> write_ok])
          /\ remote' = IF write_ok
                       THEN [exists |-> TRUE, rules |-> Stored(initial_rules)]
                       ELSE remote
          /\ pc' = AfterWrite(write_ok)
  /\ UNCHANGED <<aside, config, rules, ruleset_id, reader, fetched, sync,
                 updates_were_made, refetches, pass, prev>>

\* lines 403-405: no handle and update-only mode: the zone is skipped
SkipZone ==
  /\ pc = "Fetched"
  /\ ruleset_id = None
  /\ NoRulesetBranch(update_only) = "skip"
  /\ pc' = "Done"
  /\ UNCHANGED <<aside, remote, config, rules, ruleset_id, reader, fetched, sync, writes,
                 updates_were_made, refetches, pass, prev>>

\* lines 377 and 400: the re-fetch after a successful write; line 377 keeps
\* ruleset_id, line 400 replaces it
Refetch ==
  /\ pc = "Refetch"
  /\ \E outcome \in ReaderOutcomes :
        /\ rules' = FetchResult(outcome).rules
        /\ ruleset_id' = IF sync.called THEN ruleset_id
                         ELSE FetchResult(outcome).ruleset_id
  /\ refetches' = refetches + 1
  /\ pc' = "Done"
  /\ UNCHANGED <<aside, remote, config, reader, fetched, sync, writes, updates_were_made,
                 pass, prev>>

\* the command is run again with the same configuration: the driver makes a
\* new pass over the zone
NextPass ==
  /\ pc = "Done"
  /\ pass < MaxPasses
  /\ pass' = pass + 1
  /\ prev' = [synced |-> sync.called,
              failed |-> \E i \in 1..Len(writes) : ~writes[i].ok]
  /\ pc' = "Idle"
  /\ rules' = <<>>
  /\ ruleset_id' = None
  /\ reader' = "none"
  /\ fetched' = <<>>
  /\ sync' = NoSync
  /\ writes' = <<>>
  /\ updates_were_made' = FALSE
  /\ refetches' = 0
  /\ UNCHANGED <<aside, remote, config>>

\* one run of the driver over the zone
Next ==
  \/ Fetch
  \/ Synchronize
  \/ CreateRuleset
  \/ SkipZone
  \/ Refetch

Spec == Init /\ [][Next]_vars

\* consecutive runs of the driver over the zone
NextRerun ==
  \/ Next
  \/ NextPass

SpecRerun == Init /\ [][NextRerun]_vars

\* ------------------------------------------------- the label, on its own
\* A rule created for part n gets its label at line 208; the next run reads it
\* back (line 80) and the classifier parses it (lines 126-128).
driver == <<remote, new_rule_expressions, max_rules, update_only, pc, rules,
            ruleset_id, reader, fetched, sync, writes, updates_were_made,
            refetches, pass, prev>>

InitLabel ==
  /\ zones = NoZones
  /\ build = NoBuild
  /\ pack = NoPack
  /\ probe \in [stage : {"start"}, n : 1..MaxPart, label : {<<>>}, parsed : {None}]
  /\ remote = [exists |-> FALSE, rules |-> <<>>]
  /\ new_rule_expressions = <<>>
  /\ max_rules = 1
  /\ update_only = FALSE
  /\ pc = "Idle"
  /\ rules = <<>>
  /\ ruleset_id = None
  /\ reader = "none"
  /\ fetched = <<>>
  /\ sync = NoSync
  /\ writes = <<>>
  /\ updates_were_made = FALSE
  /\ refetches = 0
  /\ pass = 1
  /\ prev = NoPrev

\* line 208: 'description': f"{MANAGED_RULE_PREFIX}{part}"
FormatLabel ==
  /\ probe.stage = "start"
  /\ probe' = [probe EXCEPT !.stage = "created", !.label = ManagedLabel(probe.n)]
  /\ UNCHANGED <<driver, zones, build, pack>>

\* lines 126-128: the match on the description and int(match.group(1))
ClassifyLabel ==
  /\ probe.stage \in {"created", "fetched"}
  /\ probe' = [probe EXCEPT !.stage = "classified", !.parsed = ParsePart(probe.label)]
  /\ UNCHANGED <<driver, zones, build, pack>>

NextLabel ==
  \/ FormatLabel
  \/ ClassifyLabel

SpecLabel == InitLabel /\ [][NextLabel]_vars

\* ------------------------------------------- any label, on its own
\* A rule of the remote ruleset carries any description or none; the Reader
\* formats it (line 80) and the classifier tries the pattern on it (line 126).
TailChars == {"0", "1", "9", "x"}

\* the descriptions followed: the prefix, the prefix without its last
\* character, and the prefix after another character, each followed by up to
\* MaxTail characters; NoDescription is a rule whose description is None
NoDescription == <<"None">>

RemoteLabels ==
  {NoDescription}
    \cup {MANAGED_RULE_PREFIX \o t : t \in SeqsUpTo(TailChars, MaxTail)}
    \cup {SubSeq(MANAGED_RULE_PREFIX, 1, Len(MANAGED_RULE_PREFIX) - 1) \o t :
             t \in SeqsUpTo(TailChars, MaxTail)}
    \cup {<<"x">> \o MANAGED_RULE_PREFIX \o t : t \in SeqsUpTo(TailChars, MaxTail)}

InitClassify ==
  /\ zones = NoZones
  /\ build = NoBuild
  /\ pack = NoPack
  /\ probe \in [stage : {"remote"}, n : {0}, label : RemoteLabels, parsed : {None}]
  /\ remote = [exists |-> FALSE, rules |-> <<>>]
  /\ new_rule_expressions = <<>>
  /\ max_rules = 1
  /\ update_only = FALSE
  /\ pc = "Idle"
  /\ rules = <<>>
  /\ ruleset_id = None
  /\ reader = "none"
  /\ fetched = <<>>
  /\ sync = NoSync
  /\ writes = <<>>
  /\ updates_were_made = FALSE
  /\ refetches = 0
  /\ pass = 1
  /\ prev = NoPrev

\* line 80: 'description': rule.description or ""
FetchLabel ==
  /\ probe.stage = "remote"
  /\ probe' = [probe EXCEPT !.stage = "fetched",
                            !.label = IF probe.label = NoDescription THEN <<>>
                                      ELSE probe.label]
  /\ UNCHANGED <<driver, zones, build, pack>>

NextClassify ==
  \/ FetchLabel
  \/ ClassifyLabel

SpecClassify == InitClassify /\ [][NextClassify]_vars

\* ------------------------------------------- the start of run_apply_mode
\* Lines 309-317: the rules file is loaded and build_cloudflare.py is run; the
\* zones are then reconciled with new_rule_expressions (line 372, line 389).
\* build.file is data/cloudflare_rules.txt, build.generated the rules that
\* create_cloudflare_rules makes of the CSV file of this invocation.
InitBuild ==
  /\ probe = NoProbe
  /\ zones = NoZones
  /\ pack = NoPack
  /\ build \in [stage : {"start"},
                file : {[exists |-> FALSE, lines |-> <<>>]}
                         \cup {[exists |-> TRUE, lines |-> ls] :
                                  ls \in SeqsUpTo(Expressions, MaxDesired)},
                generated : SeqsUpTo(Expressions, MaxDesired),
                loaded : {<<>>}, used : {<<>>}]
  /\ remote = [exists |-> FALSE, rules |-> <<>>]
  /\ new_rule_expressions = <<>>
  /\ max_rules = 1
  /\ update_only = FALSE
  /\ pc = "Idle"
  /\ rules = <<>>
  /\ ruleset_id = None
  /\ reader = "none"
  /\ fetched = <<>>
  /\ sync = NoSync
  /\ writes = <<>>
  /\ updates_were_made = FALSE
  /\ refetches = 0
  /\ pass = 1
  /\ prev = NoPrev

\* line 311 and load_rule_expressions, lines 48-61: the lines of the file, or
\* sys.exit(1) when the file is missing
LoadRuleExpressions ==
  /\ build.stage = "start"
  /\ build' = IF build.file.exists
              THEN [build EXCEPT !.stage = "loaded", !.loaded = build.file.lines]
              ELSE [build EXCEPT !.stage = "exit"]
  /\ UNCHANGED <<driver, probe, zones, pack>>

\* lines 315-317 and build_cloudflare.py, lines 117-128: the script writes the
\* generated rules to the rules file when there are any; when the script
\* fails the driver exits
RunBuild ==
  /\ build.stage = "loaded"
  /\ \E script_ok \in BOOLEAN :
        build' = IF script_ok
                 THEN [build EXCEPT
                         !.stage = "built",
                         !.file = IF build.generated # <<>>
                                  THEN [exists |-> TRUE, lines |-> build.generated]
                                  ELSE build.file]
                 ELSE [build EXCEPT !.stage = "exit"]
  /\ UNCHANGED <<driver, probe, zones, pack>>

\* lines 352-402: the zones are reconciled with new_rule_expressions
ApplyToZones ==
  /\ build.stage = "built"
  /\ build' = [build EXCEPT !.stage = "applied", !.used = build.loaded]
  /\ UNCHANGED <<driver, probe, zones, pack>>

NextBuild ==
  \/ LoadRuleExpressions
  \/ RunBuild
  \/ ApplyToZones

SpecBuild == InitBuild /\ [][NextBuild]_vars

\* ------------------------------------------- create_cloudflare_rules
\* build_cloudflare.py, lines 34-94. A rule is a sequence of characters.
\* base_format = "(ip.geoip.asnum in {{{}}})", line 67
RuleOpen ==
  <<"(","i","p",".","g","e","o","i","p",".","a","s","n","u","m"," ","i","n"," ","{">>

RuleClose == <<"}", ")">>

BaseFormat(asns_str) == RuleOpen \o asns_str \o RuleClose

\* " ".join(map(str, asn_list)), lines 72, 78 and 90
RECURSIVE JoinAsns(_)
JoinAsns(asn_list) ==
  IF asn_list = <<>> THEN <<>>
  ELSE IF Len(asn_list) = 1 THEN Decimal(asn_list[1])
  ELSE JoinAsns(SubSeq(asn_list, 1, Len(asn_list) - 1))
          \o <<" ">> \o Decimal(asn_list[Len(asn_list)])

\* lines 71-73: the rule the current list would make with one more ASN
PotentialRule(current_asns_for_rule, asn) ==
  BaseFormat(JoinAsns(Append(current_asns_for_rule, asn)))

\* the ASNs the rows of the CSV file give (parse_asn, lines 22-31)
AsnPool == {7, 12, 345, 12345}

InitPack ==
  /\ probe = NoProbe
  /\ zones = NoZones
  /\ build = NoBuild
  /\ pack \in [stage : {"read"}, asns : SeqsUpTo(AsnPool, MaxAsns),
               max_length : (Len(RuleOpen) + Len(RuleClose) + 1)..MaxLength,
               unique_asns : {<<>>}, i : {0},
               current_asns_for_rule : {<<>>}, all_rules : {<<>>}]
  /\ remote = [exists |-> FALSE, rules |-> <<>>]
  /\ new_rule_expressions = <<>>
  /\ max_rules = 1
  /\ update_only = FALSE
  /\ pc = "Idle"
  /\ rules = <<>>
  /\ ruleset_id = None
  /\ reader = "none"
  /\ fetched = <<>>
  /\ sync = NoSync
  /\ writes = <<>>
  /\ updates_were_made = FALSE
  /\ refetches = 0
  /\ pass = 1
  /\ prev = NoPrev

\* lines 59-67: no ASN, no rule; otherwise the ASNs without duplicates, sorted
SortAsns ==
  /\ pack.stage = "read"
  /\ pack' = IF pack.asns = <<>>
             THEN [pack EXCEPT !.stage = "done"]
             ELSE [pack EXCEPT
                     !.stage = "loop",
                     !.unique_asns = SortedSeq({pack.asns[k] : k \in 1..Len(pack.asns)}),
                     !.i = 1]
  /\ UNCHANGED <<driver, probe, zones, build>>

\* lines 69-75 and 84-86: the next ASN fits, it joins the current list
ExtendRule ==
  /\ pack.stage = "loop"
  /\ pack.i <= Len(pack.unique_asns)
  /\ ~(Len(PotentialRule(pack.current_asns_for_rule, pack.unique_asns[pack.i]))
          > pack.max_length)
  /\ pack' = [pack EXCEPT
                !.current_asns_for_rule = Append(@, pack.unique_asns[pack.i]),
                !.i = @ + 1]
  /\ UNCHANGED <<driver, probe, zones, build>>

\* lines 69-83: the next ASN does not fit, the current list, if not empty,
\* becomes a rule and the ASN starts a new list
CloseRule ==
  /\ pack.stage = "loop"
  /\ pack.i <= Len(pack.unique_asns)
  /\ Len(PotentialRule(pack.current_asns_for_rule, pack.unique_asns[pack.i]))
        > pack.max_length
  /\ pack' = [pack EXCEPT
                !.all_rules = IF pack.current_asns_for_rule # <<>>
                              THEN Append(@, BaseFormat(JoinAsns(pack.current_asns_for_rule)))
                              ELSE @,
                !.current_asns_for_rule = <<pack.unique_asns[pack.i]>>,
                !.i = @ + 1]
  /\ UNCHANGED <<driver, probe, zones, build>>

\* lines 88-94: the ASNs left over become the last rule
FinishRules ==
  /\ pack.stage = "loop"
  /\ pack.i > Len(pack.unique_asns)
  /\ pack' = [pack EXCEPT
                !.stage = "done",
                !.all_rules = IF pack.current_asns_for_rule # <<>>
                              THEN Append(@, BaseFormat(JoinAsns(pack.current_asns_for_rule)))
                              ELSE @]
  /\ UNCHANGED <<driver, probe, zones, build>>

NextPack ==
  \/ SortAsns
  \/ ExtendRule
  \/ CloseRule
  \/ FinishRules

SpecPack == InitPack /\ [][NextPack]_vars

\* ------------------------------------------- the loop over the zones
\* lines 352-412 run once for every managed zone of the account; the APIError
\* of a zone is caught at lines 90, 228 and 401, so the loop goes on.
\* The rulesets the zones of the loop hold when the run starts
ZoneRemotes ==
  { [exists |-> FALSE, rules |-> <<>>],
    [exists |-> TRUE, rules |-> Stored(<<Rule(ManagedLabel(1), "a", "block", TRUE, NoParams)>>)],
    [exists |-> TRUE, rules |-> Stored(<<Rule(<<>>, "g", "skip", TRUE, "ruleset:current")>>)] }

InitZones ==
  /\ probe = NoProbe
  /\ build = NoBuild
  /\ pack = NoPack
  /\ zones \in [waiting : [1..(MaxZones - 1) -> ZoneRemotes], log : {<<>>}]
  /\ remote \in ZoneRemotes
  /\ new_rule_expressions \in SeqsUpTo(Expressions, MaxDesired)
  /\ max_rules \in 1..MaxCeiling
  /\ update_only \in BOOLEAN
  /\ pc = "Idle"
  /\ rules = <<>>
  /\ ruleset_id = None
  /\ reader = "none"
  /\ fetched = <<>>
  /\ sync = NoSync
  /\ writes = <<>>
  /\ updates_were_made = FALSE
  /\ refetches = 0
  /\ pass = 1
  /\ prev = NoPrev

\* what the run did on a zone it has left: the Reader's outcome, the outcomes
\* of the Writer calls and the number of re-fetches
ZoneSummary ==
  [reader |-> reader,
   writes |-> [i \in 1..Len(writes) |-> writes[i].ok],
   refetches |-> refetches]

\* lines 407-412 and 352: the zone's entry is appended and the for loop takes
\* the next managed zone
NextZone ==
  /\ pc = "Done"
  /\ zones.waiting # <<>>
  /\ zones' = [waiting |-> Tail(zones.waiting), log |-> Append(zones.log, ZoneSummary)]
  /\ remote' = Head(zones.waiting)
  /\ pc' = "Idle"
  /\ rules' = <<>>
  /\ ruleset_id' = None
  /\ reader' = "none"
  /\ fetched' = <<>>
  /\ sync' = NoSync
  /\ writes' = <<>>
  /\ updates_were_made' = FALSE
  /\ refetches' = 0
  /\ UNCHANGED <<probe, build, pack, config, pass, prev>>

NextZones ==
  \/ Next
  \/ NextZone

\* the driver is sequential code whose calls return: a step that can be taken
\* is taken
SpecZones == InitZones /\ [][NextZones]_vars /\ WF_vars(NextZones)

\* ------------------------------------------- labels written by other hands
\* Rules whose labels the tool never writes itself but reads as managed or
\* not: part 0, a part number with a leading zero, a part number followed by
\* other characters, and the prefix followed by a non-digit.
EdgePool ==
  { Rule(ManagedLabel(0), "a", "block", TRUE, NoParams),
    Rule(MANAGED_RULE_PREFIX \o <<"0", "1">>, "b", "block", TRUE, NoParams),
    Rule(ManagedLabel(3) \o <<"-", "x">>, "a", "block", TRUE, NoParams),
    Rule(MANAGED_RULE_PREFIX \o <<"x", "1">>, "a", "block", TRUE, NoParams) }

InitEdge ==
  /\ probe = NoProbe
  /\ zones = NoZones
  /\ build = NoBuild
  /\ pack = NoPack
  /\ remote \in {[exists |-> TRUE, rules |-> Stored(rs)] : rs \in SeqsUpTo(EdgePool, MaxRemote)}
  /\ new_rule_expressions \in SeqsUpTo(Expressions, MaxDesired)
  /\ max_rules \in 1..MaxCeiling
  /\ update_only \in BOOLEAN
  /\ pc = "Idle"
  /\ rules = <<>>
  /\ ruleset_id = None
  /\ reader = "none"
  /\ fetched = <<>>
  /\ sync = NoSync
  /\ writes = <<>>
  /\ updates_were_made = FALSE
  /\ refetches = 0
  /\ pass = 1
  /\ prev = NoPrev

SpecEdge == InitEdge /\ [][Next]_vars

\* ---------------------------------------------------- vocabulary of claims
\* The sets of the diff, stated from the fetched list and the desired list
\* without the operators of synchronize_rules.
PartOf(rule) == ParsePart(rule.description)

IsManaged(rule) == PartOf(rule) # None

IsForeign(rule) == PartOf(rule) = None

DesiredParts == 1..Len(new_rule_expressions)

FetchedParts == {PartOf(fetched[i]) : i \in 1..Len(fetched)} \ {None}

LastWith(part) ==
  CHOOSE i \in 1..Len(fetched) :
    /\ PartOf(fetched[i]) = part
    /\ \A j \in (i + 1)..Len(fetched) : PartOf(fetched[j]) # part

ToUpdate ==
  {p \in FetchedParts \cap DesiredParts :
      fetched[LastWith(p)].expression # new_rule_expressions[p]}

UnfilteredCreate == DesiredParts \ FetchedParts

UnfilteredDelete == FetchedParts \ DesiredParts

ToCreate == IF update_only THEN {} ELSE UnfilteredCreate

ToDelete == IF update_only THEN {} ELSE UnfilteredDelete

\* the Writer calls made by synchronize_rules in this pass
SyncWrites == {i \in 1..Len(writes) : writes[i].kind = "update"}

\* the Writer calls made by the first-run creation branch in this pass
CreateWrites == {i \in 1..Len(writes) : writes[i].kind = "create"}

\* a rule of a submitted list that the pass created: it has no identifier yet
IsCreated(rule) == rule.id = NoId

IsRetained(rule) == rule.id # NoId

\* a fetched rule that the full diff does not delete
IsKept(rule) == ~(IsManaged(rule) /\ PartOf(rule) \in ToDelete)

Ids(rs) == [i \in 1..Len(rs) |-> rs[i].id]

Min(a, b) == IF a <= b THEN a ELSE b

\* the k lowest numbers of a finite set of integers
Lowest(S, k) == {p \in S : Cardinality({q \in S : q < p}) < k}

\* 1-based position of the last rule of rs that is a 'skip' rule or a managed
\* rule, 0 when there is none
LastAnchorOrManaged(rs) ==
  LET hits == {i \in 1..Len(rs) : rs[i].action = "skip" \/ IsManaged(rs[i])}
  IN IF hits = {} THEN 0 ELSE CHOOSE i \in hits : \A j \in hits : j <= i

\* ------------------------------------------------------------------ claims
\* C1: idempotence of a pass. If the previous pass ran synchronize_rules and
\* none of its writes failed, then a pass with the same desired content, mode
\* and max_rules that fetches the resulting remote list ends with
\* synchronize_rules returning False and no Writer call.
C1_SecondPassNoChange ==
  (pass > 1 /\ prev.synced /\ ~prev.failed /\ sync.called /\ fetched = remote.rules)
    => (~sync.ret /\ writes = <<>>)

\* C2: the foreign entries of a list submitted by synchronize_rules are the
\* foreign entries of the fetched list, in the same order, every field equal.
C2_ForeignPreserved ==
  \A i \in SyncWrites :
    SelectSeq(writes[i].rules, IsForeign) = SelectSeq(fetched, IsForeign)

\* C2 witness: a submitted list in which a managed entry stands between two
\* foreign entries of the fetched list
C2_Witness ==
  /\ SyncWrites # {}
  /\ Len(SelectSeq(fetched, IsForeign)) >= 2
  /\ \E i, j, k \in 1..Len(writes[1].rules) :
        /\ i < j /\ j < k
        /\ IsForeign(writes[1].rules[i])
        /\ IsManaged(writes[1].rules[j])
        /\ IsForeign(writes[1].rules[k])

\* C3: when the Reader fails with a transport error, the pass issues no Writer
\* call, in either mode.
C3_NoWriteAfterTransportError ==
  reader = "error" => writes = <<>>

\* C4 as stated: every list that synchronize_rules submits to the Writer has
\* at most max_rules entries.
C4_SubmittedWithinCeiling ==
  \A i \in SyncWrites : Len(writes[i].rules) <= max_rules

\* C4 amended: a list that synchronize_rules submits has at most max_rules
\* entries when it holds a newly created entry, and otherwise no more entries
\* than the fetched list.
C4_CreationWithinCeiling ==
  \A i \in SyncWrites :
    IF \E j \in 1..Len(writes[i].rules) : IsCreated(writes[i].rules[j])
    THEN Len(writes[i].rules) <= max_rules
    ELSE Len(writes[i].rules) <= Len(fetched)

\* C4 witness: a submitted list filled up to the ceiling by a creation, with
\* another creation left out
C4_Witness ==
  /\ SyncWrites # {}
  /\ \E j \in 1..Len(writes[1].rules) : IsCreated(writes[1].rules[j])
  /\ Len(writes[1].rules) = max_rules
  /\ Len(fetched) >= 1
  /\ sync.skipped # <<>>

\* C5: the list written by the first-run creation branch (the Reader reports
\* no ruleset, full-sync mode) has at most max_rules entries.
C5_FirstRunWithinCeiling ==
  \A i \in CreateWrites : reader = "notfound" => Len(writes[i].rules) <= max_rules

\* C6: with L the number of fetched entries the diff keeps and N = max_rules,
\* min(|toCreate|, max(0, N - L)) entries are created, they carry the lowest
\* part numbers of toCreate, every other queued creation is skipped with a
\* warning, and the list is submitted all the same.
C6_CreatedCount ==
  sync.called =>
    LET L == Len(SelectSeq(fetched, IsKept))
        k == Min(Cardinality(ToCreate), Max(0, max_rules - L))
    IN /\ ToCreate # {} => SyncWrites # {}
       /\ \A i \in SyncWrites :
            LET created == SelectSeq(writes[i].rules, IsCreated)
            IN /\ Len(created) = k
               /\ {PartOf(created[j]) : j \in 1..Len(created)} = Lowest(ToCreate, k)
               /\ {sync.skipped[j] : j \in 1..Len(sync.skipped)}
                     = ToCreate \ Lowest(ToCreate, k)
               /\ Len(sync.skipped) = Cardinality(ToCreate) - k

\* C6 witness: one creation accepted and one skipped over a non-empty list
C6_Witness ==
  /\ SyncWrites # {}
  /\ Len(SelectSeq(writes[1].rules, IsCreated)) = 1
  /\ Len(sync.skipped) = 1
  /\ Len(SelectSeq(fetched, IsKept)) >= 1

\* C7: the accepted new entries form one contiguous block in ascending part
\* order that starts right after the last retained entry that is a 'skip' rule
\* or a managed rule, and the retained entries keep their relative order.
C7_InsertionPoint ==
  \A i \in SyncWrites :
    LET submitted == writes[i].rules
        retained == SelectSeq(submitted, IsRetained)
        k == Len(SelectSeq(submitted, IsCreated))
        base == LastAnchorOrManaged(retained)
    IN /\ Ids(retained) = Ids(SelectSeq(fetched, IsKept))
       /\ \A j \in 1..k : IsCreated(submitted[base + j])
       /\ \A j \in 1..(k - 1) :
             PartOf(submitted[base + j]) < PartOf(submitted[base + j + 1])
       /\ SubSeq(submitted, 1, base) = SubSeq(retained, 1, base)
       /\ SubSeq(submitted, base + k + 1, Len(submitted))
             = SubSeq(retained, base + 1, Len(retained))

\* C7 witness: an entry created between a retained managed rule and the
\* foreign rule that follows it
C7_Witness ==
  /\ SyncWrites # {}
  /\ Len(SelectSeq(writes[1].rules, IsCreated)) = 1
  /\ LET submitted == writes[1].rules
     IN /\ Len(submitted) = 3
        /\ IsManaged(submitted[1]) /\ IsRetained(submitted[1])
        /\ IsCreated(submitted[2])
        /\ IsForeign(submitted[3]) /\ submitted[3].action # "skip"

\* C8: when the rebuilt list holds no 'skip' rule and no managed rule, the
\* accepted new entries are the first entries of the submitted list, in
\* ascending part order, followed by the retained entries in fetched order.
C8_NoAnchorInsertsAtFront ==
  \A i \in SyncWrites :
    LET submitted == writes[i].rules
        kept == SelectSeq(fetched, IsKept)
        k == Len(SelectSeq(submitted, IsCreated))
    IN (\A j \in 1..Len(kept) : kept[j].action # "skip" /\ IsForeign(kept[j]))
         => /\ \A j \in 1..k : IsCreated(submitted[j])
            /\ \A j \in 1..(k - 1) : PartOf(submitted[j]) < PartOf(submitted[j + 1])
            /\ SubSeq(submitted, k + 1, Len(submitted)) = kept

\* C8 witness: two entries created in front of a retained foreign rule, the
\* only managed rule of the fetched list having been deleted
C8_Witness ==
  /\ SyncWrites # {}
  /\ Len(SelectSeq(writes[1].rules, IsCreated)) = 2
  /\ Len(SelectSeq(fetched, IsKept)) >= 1
  /\ \A j \in 1..Len(fetched) :
        IsKept(fetched[j]) => fetched[j].action # "skip" /\ IsForeign(fetched[j])
  /\ \E j \in 1..Len(fetched) : ~IsKept(fetched[j])

\* C9: in update-only mode a submitted list has the length of the fetched list
\* and equals it index by index, except that a managed entry whose part is in
\* toUpdate carries the desired expression.
C9_UpdateOnlyFrame ==
  update_only =>
    \A i \in SyncWrites :
      /\ Len(writes[i].rules) = Len(fetched)
      /\ \A j \in 1..Len(fetched) :
           writes[i].rules[j] =
             IF IsManaged(fetched[j]) /\ PartOf(fetched[j]) \in ToUpdate
             THEN [fetched[j] EXCEPT !.expression = new_rule_expressions[PartOf(fetched[j])]]
             ELSE fetched[j]

\* C9 witness: an update-only write while the unfiltered diff also asks for a
\* creation and a deletion
C9_Witness ==
  /\ update_only
  /\ SyncWrites # {}
  /\ UnfilteredCreate # {}
  /\ UnfilteredDelete # {}
  /\ writes[1].rules # fetched

\* C10: when toUpdate, toCreate and toDelete are empty after the mode filter,
\* synchronize_rules returns False and the Writer is not called.
C10_EmptyPlanNoWrite ==
  (sync.called /\ ToUpdate = {} /\ ToCreate = {} /\ ToDelete = {})
    => (~sync.ret /\ writes = <<>>)

\* C10 witness: an update-only pass with nothing to update whose unfiltered
\* diff asks for a creation and a deletion
C10_Witness ==
  /\ sync.called
  /\ update_only
  /\ ToUpdate = {}
  /\ UnfilteredCreate # {}
  /\ UnfilteredDelete # {}
  /\ writes = <<>>

\* C11 as stated: a fetched managed entry whose expression equals the desired
\* expression at its part number has that number outside toUpdate and is
\* submitted unchanged, whatever its other fields are.
C11_EqualContentNeverQueued ==
  sync.called =>
    \A j \in 1..Len(fetched) :
      (/\ IsManaged(fetched[j])
       /\ PartOf(fetched[j]) \in DesiredParts
       /\ fetched[j].expression = new_rule_expressions[PartOf(fetched[j])])
        => /\ PartOf(fetched[j]) \notin sync.parts_to_update
           /\ \A i \in SyncWrites :
                \E k \in 1..Len(writes[i].rules) : writes[i].rules[k] = fetched[j]

\* C11 amended: such an entry is submitted unchanged, and its part number is
\* outside toUpdate when it is the last fetched entry that carries the number.
C11_EqualContentUnchanged ==
  sync.called =>
    \A j \in 1..Len(fetched) :
      (/\ IsManaged(fetched[j])
       /\ PartOf(fetched[j]) \in DesiredParts
       /\ fetched[j].expression = new_rule_expressions[PartOf(fetched[j])])
        => /\ j = LastWith(PartOf(fetched[j]))
                => PartOf(fetched[j]) \notin sync.parts_to_update
           /\ \A i \in SyncWrites :
                \E k \in 1..Len(writes[i].rules) : writes[i].rules[k] = fetched[j]

\* C11 witness: a list is submitted with a managed entry that is disabled, has
\* action 'skip' and action parameters, and carries the desired expression
C11_Witness ==
  /\ SyncWrites # {}
  /\ \E j \in 1..Len(fetched) :
        /\ IsManaged(fetched[j])
        /\ PartOf(fetched[j]) \in DesiredParts
        /\ fetched[j].expression = new_rule_expressions[PartOf(fetched[j])]
        /\ ~fetched[j].enabled
        /\ fetched[j].action = "skip"
        /\ fetched[j].action_parameters # NoParams
        /\ \E k \in 1..Len(writes[1].rules) : writes[1].rules[k] = fetched[j]

\* the fetched list carries every part number at most once
UniqueParts ==
  \A i, j \in 1..Len(fetched) :
    (i # j /\ IsManaged(fetched[i])) => PartOf(fetched[i]) # PartOf(fetched[j])

\* C12: after a successful full-sync pass without a skipped creation, on a
\* fetched list with unique part numbers, the submitted list holds exactly one
\* managed entry for each part 1..n, none for another number, and each carries
\* the desired expression of its part.
C12_ManagedMatchDesired ==
  (~update_only /\ sync.ret /\ sync.skipped = <<>> /\ UniqueParts) =>
    \A i \in SyncWrites :
      LET managed == SelectSeq(writes[i].rules, IsManaged)
      IN /\ {PartOf(managed[j]) : j \in 1..Len(managed)} = DesiredParts
         /\ Len(managed) = Len(new_rule_expressions)
         /\ \A j \in 1..Len(managed) :
               managed[j].expression = new_rule_expressions[PartOf(managed[j])]

\* C12 witness: a successful full-sync pass that updates, creates and deletes
C12_Witness ==
  /\ ~update_only /\ sync.ret /\ sync.skipped = <<>> /\ UniqueParts
  /\ ToUpdate # {} /\ ToCreate # {} /\ ToDelete # {}

\* C13: within one pass of a zone the Writer is called at most once, a list
\* written by synchronize_rules holds every fetched entry the diff keeps
\* besides the created ones, and nothing follows a failed write.
C13_OneWholeWrite ==
  /\ Len(writes) <= 1
  /\ \A i \in SyncWrites :
        Len(SelectSeq(writes[i].rules, IsRetained)) = Len(SelectSeq(fetched, IsKept))
  /\ \A i \in 1..Len(writes) : ~writes[i].ok => (pc = "Done" /\ refetches = 0)

\* C13 witness: a failed write of a list with retained and created entries
C13_Witness ==
  /\ SyncWrites # {}
  /\ ~writes[1].ok
  /\ pc = "Done"
  /\ \E k \in 1..Len(writes[1].rules) : IsCreated(writes[1].rules[k])
  /\ \E k \in 1..Len(writes[1].rules) : IsRetained(writes[1].rules[k])

\* C14: the ruleset is re-fetched once after a successful write, before the
\* zone's pass ends, and never after a pass without a write or a failed write.
C14_RefetchAfterWrite ==
  /\ pc \in {"Idle", "Fetched"} => refetches = 0
  /\ pc = "Refetch" => (refetches = 0 /\ writes # <<>> /\ writes[Len(writes)].ok)
  /\ pc = "Done" => refetches = Cardinality({i \in 1..Len(writes) : writes[i].ok})

\* C14 witness: the pass of a zone ended after a successful write of
\* synchronize_rules and its re-fetch
C14_Witness ==
  /\ pc = "Done"
  /\ SyncWrites # {}
  /\ writes[1].ok
  /\ refetches = 1

\* C15: the label generated for part n, the prefix followed by n in decimal,
\* is parsed by the classifier back to n, for every n >= 1.
C15_LabelRoundTrip ==
  probe.stage = "classified" => probe.parsed = probe.n

\* C15 witness: a three-digit part number came back from its label
C15_Witness ==
  /\ probe.stage = "classified"
  /\ probe.n >= 100
  /\ Len(probe.label) = Len(MANAGED_RULE_PREFIX) + 3
  /\ probe.parsed = probe.n

\* C16: in a submitted list every created entry stands after every retained
\* 'skip' entry and after every retained managed entry.
C16_CreatedAfterAnchors ==
  \A i \in SyncWrites :
    \A j, k \in 1..Len(writes[i].rules) :
      (/\ IsCreated(writes[i].rules[k])
       /\ IsRetained(writes[i].rules[j])
       /\ (writes[i].rules[j].action = "skip" \/ IsManaged(writes[i].rules[j])))
        => j < k

\* C16 witness: an entry created after a retained managed rule and a retained
\* foreign 'skip' rule that follows it
C16_Witness ==
  /\ SyncWrites # {}
  /\ LET submitted == writes[1].rules
     IN /\ Len(submitted) = 3
        /\ IsRetained(submitted[1]) /\ IsManaged(submitted[1])
        /\ IsRetained(submitted[2]) /\ IsForeign(submitted[2])
        /\ submitted[2].action = "skip"
        /\ IsCreated(submitted[3])

\* C17: toUpdate is the set of part numbers in both maps whose expressions
\* differ, toCreate the desired numbers absent from the managed map, toDelete
\* the managed numbers absent from the desired map; the sets are disjoint.
C17_DiffSets ==
  sync.called =>
    /\ sync.parts_to_update = ToUpdate
    /\ sync.parts_to_create = UnfilteredCreate
    /\ sync.parts_to_delete = UnfilteredDelete
    /\ sync.parts_to_update \cap sync.parts_to_create = {}
    /\ sync.parts_to_update \cap sync.parts_to_delete = {}
    /\ sync.parts_to_create \cap sync.parts_to_delete = {}

\* C17 witness: a diff whose three sets are all non-empty
C17_Witness ==
  /\ sync.called
  /\ sync.parts_to_update # {}
  /\ sync.parts_to_create # {}
  /\ sync.parts_to_delete # {}

\* the positions of the fetched entries that carry a part number
Carriers(part) == {j \in 1..Len(fetched) : PartOf(fetched[j]) = part}

\* C18: when several fetched entries carry one part number, the last of them
\* decides whether the number is in toUpdate, and in a submitted list they are
\* all dropped, all rewritten to the desired expression, or all kept as fetched.
C18_DuplicatesShareFate ==
  sync.called =>
    \A p \in FetchedParts :
      Cardinality(Carriers(p)) >= 2 =>
        /\ p \in sync.parts_to_update
              <=> (p \in DesiredParts
                     /\ fetched[LastWith(p)].expression # new_rule_expressions[p])
        /\ \A i \in SyncWrites :
              LET submitted == {writes[i].rules[k] : k \in 1..Len(writes[i].rules)}
              IN \/ \A j \in Carriers(p) : \A r \in submitted : r.id # fetched[j].id
                 \/ /\ p \in sync.parts_to_update
                    /\ \A j \in Carriers(p) :
                          [fetched[j] EXCEPT !.expression = new_rule_expressions[p]]
                             \in submitted
                 \/ /\ p \notin sync.parts_to_update
                    /\ \A j \in Carriers(p) : fetched[j] \in submitted

\* C18 witness: two entries with one part number and different expressions,
\* the first equal to the desired one, both rewritten because of the last
C18_Witness ==
  /\ SyncWrites # {}
  /\ \E j, k \in 1..Len(fetched) :
        /\ j < k
        /\ IsManaged(fetched[j])
        /\ PartOf(fetched[j]) = PartOf(fetched[k])
        /\ PartOf(fetched[j]) \in sync.parts_to_update
        /\ fetched[j].expression = new_rule_expressions[PartOf(fetched[j])]
        /\ fetched[k].expression # fetched[j].expression

\* C19: synchronize_rules calls the Writer only with a list that differs from
\* the fetched list; when every queued creation is skipped and nothing is
\* updated or deleted there is no write and False is returned.
C19_WriteOnlyOnChange ==
  /\ \A i \in SyncWrites : writes[i].rules # fetched
  /\ sync.ret => writes[1].rules # fetched

\* C20: what the driver keeps of a pass whose write failed differs from what
\* it keeps of a pass that found no change (no update made, the fetched rules,
\* the handle).
C20_FailureDistinguished ==
  (pc = "Done" /\ sync.called /\ writes # <<>> /\ ~writes[1].ok)
    => <<updates_were_made, rules, ruleset_id>> # <<FALSE, fetched, RulesetHandle>>

\* a pass that met a failure made no remote call after it: none after a failed
\* fetch, none after a failed write
QuietAfterFailure(z) ==
  /\ z.reader = "error" => (z.writes = <<>> /\ z.refetches = 0)
  /\ \A i \in 1..Len(z.writes) : ~z.writes[i] => (i = Len(z.writes) /\ z.refetches = 0)

\* C21: a Reader or Writer failure on a zone does not stop the run, every
\* managed zone is fetched and taken to the end of its pass, and the pass of a
\* zone that met a failure makes no remote call after the failure.
C21_FailureIsolated ==
  /\ <>(pc = "Done" /\ zones.waiting = <<>> /\ Len(zones.log) = MaxZones - 1)
  /\ [](QuietAfterFailure(ZoneSummary)
         /\ \A k \in 1..Len(zones.log) : QuietAfterFailure(zones.log[k]))

\* the terminal outcomes of a pass, read off what the pass has done: the fetch
\* gave no handle, the diff found nothing to apply, the write went through,
\* the write was refused
PassOutcomes ==
  (IF reader \in {"error", "notfound"} THEN {"FetchFailed"} ELSE {})
    \cup (IF sync.called /\ ~sync.call_writer THEN {"NoChangeFound"} ELSE {})
    \cup (IF \E i \in 1..Len(writes) : writes[i].ok THEN {"Applied"} ELSE {})
    \cup (IF \E i \in 1..Len(writes) : ~writes[i].ok THEN {"ApplyFailed"} ELSE {})

\* C22: every pass of a zone ends, under every Reader and Writer outcome, in
\* exactly one of the outcomes fetch failed, NoChangeFound, Applied and
\* ApplyFailed; the Writer is called only after the diff found a non-empty
\* plan, and a write outcome or a re-fetch exists only after a Writer call.
C22_PassTerminates ==
  /\ (pc = "Fetched") ~> (pc = "Done")
  /\ [](pc = "Done" => Cardinality(PassOutcomes) = 1)
  /\ [](writes # <<>> => (sync.called /\ sync.call_writer))
  /\ [](refetches > 0 => writes # <<>>)

\* the fetched entries that a submitted list no longer holds
Dropped(submitted) ==
  {j \in 1..Len(fetched) : \A k \in 1..Len(submitted) : submitted[k].id # fetched[j].id}

\* C23 as stated: in full-sync mode the fetched entries absent from the
\* submitted list are exactly the managed entries whose part number is greater
\* than the number of desired expressions.
C23_DroppedAreBeyondDesired ==
  ~update_only =>
    \A i \in SyncWrites :
      Dropped(writes[i].rules)
        = {j \in 1..Len(fetched) :
             IsManaged(fetched[j]) /\ PartOf(fetched[j]) > Len(new_rule_expressions)}

\* C23 amended: they are exactly the managed entries whose part number is not
\* one of 1..n, that is, greater than n or equal to 0.
C23_DroppedAreToDelete ==
  ~update_only =>
    \A i \in SyncWrites :
      Dropped(writes[i].rules)
        = {j \in 1..Len(fetched) :
             IsManaged(fetched[j]) /\ PartOf(fetched[j]) \in UnfilteredDelete}

\* C23 witness: a full-sync write that drops the entry of part 0 and keeps a
\* managed entry that is still desired
C23_Witness ==
  /\ ~update_only
  /\ SyncWrites # {}
  /\ \E j \in Dropped(writes[1].rules) : PartOf(fetched[j]) = 0
  /\ \E j \in 1..Len(fetched) :
        /\ PartOf(fetched[j]) \in DesiredParts
        /\ j \notin Dropped(writes[1].rules)

\* C24: the retained entries of a submitted list are the fetched entries the
\* diff keeps, in fetched order; a managed one whose part is in toUpdate differs
\* from the fetched entry in its expression only, every other one is equal to it.
C24_UpdatedInPlace ==
  \A i \in SyncWrites :
    LET kept == SelectSeq(fetched, IsKept)
        retained == SelectSeq(writes[i].rules, IsRetained)
    IN /\ Len(retained) = Len(kept)
       /\ \A j \in 1..Len(kept) :
            retained[j] =
              IF IsManaged(kept[j]) /\ PartOf(kept[j]) \in ToUpdate
              THEN [kept[j] EXCEPT !.expression = new_rule_expressions[PartOf(kept[j])]]
              ELSE kept[j]

\* C24 witness: a disabled managed 'skip' entry with action parameters is
\* updated in its place after a foreign entry
C24_Witness ==
  /\ SyncWrites # {}
  /\ Len(fetched) = 2
  /\ IsForeign(fetched[1])
  /\ IsManaged(fetched[2])
  /\ PartOf(fetched[2]) \in ToUpdate
  /\ ~fetched[2].enabled
  /\ fetched[2].action_parameters # NoParams
  /\ writes[1].rules[2].id = fetched[2].id
  /\ writes[1].rules[2].expression # fetched[2].expression

\* the value of a decimal numeral, most significant digit first
RECURSIVE Pow10(_)
Pow10(k) == IF k = 0 THEN 1 ELSE 10 * Pow10(k - 1)

RECURSIVE NumeralValue(_)
NumeralValue(ds) ==
  IF ds = <<>> THEN 0
  ELSE DigitVal(ds[1]) * Pow10(Len(ds) - 1) + NumeralValue(Tail(ds))

\* C25: a label is classified as managed exactly when it starts with the
\* prefix and a decimal digit follows the prefix at once; its part number is
\* then the value of the longest run of digits after the prefix, whatever
\* comes after the run; every other label is classified as foreign.
C25_ClassifiedByPrefixAndDigits ==
  probe.stage = "classified" =>
    LET l == probe.label
        n == Len(MANAGED_RULE_PREFIX)
        managed == /\ Len(l) > n
                   /\ \A i \in 1..n : l[i] = MANAGED_RULE_PREFIX[i]
                   /\ IsDigit(l[n + 1])
    IN /\ probe.parsed # None <=> managed
       /\ managed =>
            \E k \in 1..(Len(l) - n) :
               /\ \A i \in 1..k : IsDigit(l[n + i])
               /\ n + k = Len(l) \/ ~IsDigit(l[n + k + 1])
               /\ probe.parsed = NumeralValue(SubSeq(l, n + 1, n + k))

\* C25 witness: the label 'Block-Bad-ASNs-Part-19x' was classified as part 19
C25_Witness ==
  /\ probe.stage = "classified"
  /\ probe.label = MANAGED_RULE_PREFIX \o <<"1", "9", "x">>
  /\ probe.parsed = 19

\* C26: an entry of a list submitted by synchronize_rules whose part number is
\* in toCreate has as label the prefix followed by the decimal numeral of that
\* number, the desired expression of the number, action 'block', enabled true,
\* and neither an identifier nor action parameters.
C26_CreatedFields ==
  \A i \in SyncWrites :
    \A k \in 1..Len(writes[i].rules) :
      LET r == writes[i].rules[k]
          n == Len(MANAGED_RULE_PREFIX)
          numeral == SubSeq(r.description, n + 1, Len(r.description))
      IN (IsManaged(r) /\ PartOf(r) \in ToCreate) =>
           /\ SubSeq(r.description, 1, n) = MANAGED_RULE_PREFIX
           /\ \A d \in 1..Len(numeral) : IsDigit(numeral[d])
           /\ numeral[1] # "0"
           /\ NumeralValue(numeral) = PartOf(r)
           /\ r.expression = new_rule_expressions[PartOf(r)]
           /\ r.action = "block"
           /\ r.enabled
           /\ r.id = NoId
           /\ r.action_parameters = NoParams

\* C26 witness: the parts 1 and 2 are created with different expressions next
\* to a retained entry
C26_Witness ==
  /\ SyncWrites # {}
  /\ ToCreate = {1, 2}
  /\ new_rule_expressions[1] # new_rule_expressions[2]
  /\ Len(writes[1].rules) = 3
  /\ {PartOf(writes[1].rules[k]) : k \in 1..3} \cap ToCreate = {1, 2}

\* C27: in full-sync mode, when the Reader reports that the zone has no
\* ruleset, the pass makes exactly one write, a creation whose list holds for
\* k = 1..n, in this order, the entry with the prefix and the numeral of k as
\* label, the k-th desired expression, action 'block' and enabled; the ruleset
\* is re-fetched once if the write succeeded and not at all otherwise.
C27_FirstRunCreation ==
  (~update_only /\ reader = "notfound") =>
    /\ pc = "Fetched" => writes = <<>>
    /\ pc \in {"Refetch", "Done"} =>
         /\ Len(writes) = 1
         /\ writes[1].kind = "create"
         /\ Len(writes[1].rules) = Len(new_rule_expressions)
         /\ \A k \in 1..Len(writes[1].rules) :
              LET r == writes[1].rules[k]
                  n == Len(MANAGED_RULE_PREFIX)
                  numeral == SubSeq(r.description, n + 1, Len(r.description))
              IN /\ SubSeq(r.description, 1, n) = MANAGED_RULE_PREFIX
                 /\ numeral # <<>>
                 /\ \A d \in 1..Len(numeral) : IsDigit(numeral[d])
                 /\ numeral[1] # "0"
                 /\ NumeralValue(numeral) = k
                 /\ r.expression = new_rule_expressions[k]
                 /\ r.action = "block"
                 /\ r.enabled
         /\ pc = "Refetch" => (writes[1].ok /\ refetches = 0)
         /\ pc = "Done" => refetches = (IF writes[1].ok THEN 1 ELSE 0)

\* C27 witness: a ruleset with two different expressions was created and
\* re-fetched
C27_Witness ==
  /\ ~update_only
  /\ reader = "notfound"
  /\ pc = "Done"
  /\ Len(writes) = 1
  /\ writes[1].ok
  /\ Len(writes[1].rules) = 2
  /\ writes[1].rules[1].expression # writes[1].rules[2].expression
  /\ refetches = 1

\* C28: in update-only mode a pass whose fetch returned no handle, the ruleset
\* being absent or the fetch having failed, makes no write and no re-fetch.
C28_UpdateOnlyNoHandleNoWrite ==
  (update_only /\ reader \in {"notfound", "error"}) =>
    (writes = <<>> /\ refetches = 0 /\ ~sync.called)

\* C28 witness: an update-only pass ended after a failed fetch while there
\* were expressions to apply to an existing ruleset
C28_Witness ==
  /\ update_only
  /\ reader = "error"
  /\ pc = "Done"
  /\ new_rule_expressions # <<>>
  /\ remote.exists
  /\ writes = <<>>

\* C29: the expressions the zones are reconciled with in an invocation are the
\* lines of the rules file as the build step of that invocation left it.
C29_AppliesFreshBuild ==
  build.stage = "applied" => build.used = build.file.lines

\* the distinct ASNs of the input, ascending
AscendingAsns ==
  SortedSeq({pack.asns[k] : k \in 1..Len(pack.asns)})

\* the rules made of the runs into which the cuts split the ascending ASNs: a
\* cut c ends a run after the c-th ASN
RunsOf(cuts) ==
  LET n == Len(AscendingAsns)
      ends == SortedSeq(cuts \cup (IF n > 0 THEN {n} ELSE {}))
  IN [k \in 1..Len(ends) |->
        SubSeq(AscendingAsns, (IF k = 1 THEN 0 ELSE ends[k - 1]) + 1, ends[k])]

\* C30: the rules returned by create_cloudflare_rules are the ascending
\* distinct ASNs cut into consecutive runs, each ASN in one rule; every rule is
\* at most max_length characters long; and a run ends before an ASN only when
\* the rule with that ASN added would be longer than max_length.
C30_PackedWithinLength ==
  pack.stage = "done" =>
    /\ \A k \in 1..Len(pack.all_rules) : Len(pack.all_rules[k]) <= pack.max_length
    /\ \E cuts \in SUBSET (1..(Len(AscendingAsns) - 1)) :
         LET runs == RunsOf(cuts)
         IN /\ pack.all_rules = [k \in 1..Len(runs) |-> BaseFormat(JoinAsns(runs[k]))]
            /\ \A k \in 1..(Len(runs) - 1) :
                 Len(BaseFormat(JoinAsns(Append(runs[k], runs[k + 1][1]))))
                    > pack.max_length

====
